---------------------------- MODULE Spec2Model ----------------------------
(***************************************************************************)
(* A model of the SteamID class of graefchen/SteamID.js.                   *)
(*                                                                         *)
(* The class keeps one BigInt, `data`, partitioned into four bit fields    *)
(* (account number, instance, type, universe), and converts between it     *)
(* and three textual forms.                                                *)
(*                                                                         *)
(* Representation.  TLC's integers are 32-bit, the program's are not, so   *)
(* a non-negative BigInt is a sequence of hexadecimal digits, least        *)
(* significant first, with no 0 at its high end.  A signed integer (a JS   *)
(* Number holding an integer, or a BigInt that may be negative) is a       *)
(* record [neg, mag].  Strings are TLA+ strings, read one character at a   *)
(* time with SubSeq.                                                       *)
(***************************************************************************)
EXTENDS Integers, Sequences, FiniteSets, TLC

(***************************************************************************)
(* Arbitrary-precision naturals (the BigInt operations the code uses).     *)
(* A natural is the sequence of its hexadecimal digits, least significant  *)
(* first, with no 0 at its high end; zero is <<>>.                         *)
(***************************************************************************)
Min(a, b) == IF a <= b THEN a ELSE b
Max(a, b) == IF a >= b THEN a ELSE b

\* TRUE, and v has been evaluated.  The interpreter evaluates a definition
\* where its value is first needed, which can be deep inside the evaluation
\* of another; a condition that names v has it evaluated there instead
Computed(v) == v = v

\* a digit sequence without the 0s at its high end
Norm(h) ==
    IF Len(h) = 0 \/ h[Len(h)] # 0 THEN h
    ELSE IF \A i \in 1..Len(h) : h[i] = 0 THEN <<>>
    ELSE SubSeq(h, 1, Len(h) - CHOOSE k \in 1..(Len(h) - 1) :
                                   /\ h[Len(h) - k] # 0
                                   /\ \A i \in (Len(h) - k + 1)..Len(h) : h[i] = 0)

\* hexadecimal digit i (from 0) of h
Digit(h, i) == IF 0 <= i /\ i < Len(h) THEN h[i + 1] ELSE 0

\* a small natural (below 2^31) as a natural of the model, and back
FromNat(n) == Norm(SubSeq([i \in 1..8 |-> (n \div 16^(i - 1)) % 16], 1, 8))
ToNat(h) ==
    Digit(h, 0) + 16 * Digit(h, 1) + 16^2 * Digit(h, 2) + 16^3 * Digit(h, 3)
    + 16^4 * Digit(h, 4) + 16^5 * Digit(h, 5) + 16^6 * Digit(h, 6)
    + 16^7 * Digit(h, 7)

\* x & y and x | y of two hexadecimal digits
And4(x, y) ==
    (x % 2) * (y % 2)
    + 2 * (((x \div 2) % 2) * ((y \div 2) % 2))
    + 4 * (((x \div 4) % 2) * ((y \div 4) % 2))
    + 8 * ((x \div 8) * (y \div 8))
Or4(x, y) == x + y - And4(x, y)

\* a & b
BitAnd(a, b) ==
    Norm(SubSeq([i \in 1..Min(Len(a), Len(b)) |-> And4(a[i], b[i])],
                1, Min(Len(a), Len(b))))

\* a | b
BitOr(a, b) ==
    Norm(SubSeq([i \in 1..Max(Len(a), Len(b)) |->
                    Or4(Digit(a, i - 1), Digit(b, i - 1))],
                1, Max(Len(a), Len(b))))

\* a & ~m, for a, m >= 0: ~m is -m-1, whose two's complement has a 1
\* exactly where m has a 0, at every position however high
BitAndNot(a, m) ==
    Norm(SubSeq([i \in 1..Len(a) |-> And4(a[i], 15 - Digit(m, i - 1))], 1, Len(a)))

\* a << n
ShiftLeft(a, n) ==
    LET q == n \div 4
        r == n % 4
    IN  Norm(SubSeq([i \in 1..(Len(a) + q + 1) |->
                        ((Digit(a, i - 1 - q) * 2^r) % 16)
                        + (Digit(a, i - 2 - q) \div 2^(4 - r))],
                    1, Len(a) + q + 1))

\* a >> n
ShiftRight(a, n) ==
    LET q == n \div 4
        r == n % 4
    IN  Norm(SubSeq([i \in 1..Max(Len(a) - q, 0) |->
                        (Digit(a, i - 1 + q) \div 2^r)
                        + ((Digit(a, i + q) * 2^(4 - r)) % 16)],
                    1, Max(Len(a) - q, 0)))

\* The sums and products below are formed column by column, and the carries
\* are looked up, not rippled, so that a natural of a thousand bits takes no
\* deeper evaluation than a small one.
\* the columns of a sequence p of naturals below 16^8, p[j] standing for
\* p[j] * 16^(j-1): each hexadecimal digit of each p[j] goes to its column
Columns(p) ==
    LET D(j, e) == IF j - e < 1 \/ j - e > Len(p) THEN 0
                   ELSE (p[j - e] \div 16^e) % 16
    IN  SubSeq([j \in 1..(Len(p) + 8) |->
                   D(j, 0) + D(j, 1) + D(j, 2) + D(j, 3)
                   + D(j, 4) + D(j, 5) + D(j, 6) + D(j, 7)],
               1, Len(p) + 8)
\* every column keeps its low digit and takes what the column below carries
CarryPass(s) ==
    SubSeq([j \in 1..Len(s) |->
               (s[j] % 16) + (IF j > 1 THEN s[j - 1] \div 16 ELSE 0)],
           1, Len(s))
\* the carry into column j of columns of 16 at most: it comes from the
\* nearest column below that is not 15, when that one is 16
CarryInto(s, j) ==
    IF j = 1 THEN 0
    ELSE IF s[j - 1] = 16 THEN 1
    ELSE IF s[j - 1] # 15 THEN 0
    ELSE IF \E i \in 1..(j - 2) :
               s[i] = 16 /\ \A x \in (i + 1)..(j - 2) : s[x] = 15
         THEN 1 ELSE 0
\* the natural that columns s of 16 at most stand for
Settled(s) ==
    IF Computed(s)
    THEN Norm(SubSeq([j \in 1..Len(s) |-> (s[j] + CarryInto(s, j)) % 16],
                     1, Len(s)))
    ELSE <<>>
\* the natural that p stands for: two passes bring every column to 16 at most
Carried(p) ==
    IF Computed(p) THEN Settled(CarryPass(CarryPass(Columns(p)))) ELSE <<>>

\* a + b
Add(a, b) ==
    IF Computed(a) /\ Computed(b)
    THEN Carried(SubSeq([j \in 1..Max(Len(a), Len(b)) |->
                            Digit(a, j - 1) + Digit(b, j - 1)],
                        1, Max(Len(a), Len(b))))
    ELSE <<>>

\* a * b + c, for a and b below 16^1000: column j sums the products of the
\* digits of a and b whose positions add up to j, and takes the digit of c
RECURSIVE SumProducts(_, _, _, _, _)
SumProducts(a, b, j, lo, hi) ==
    IF lo > hi THEN 0
    ELSE IF lo = hi THEN a[lo] * b[j + 1 - lo]
    ELSE SumProducts(a, b, j, lo, (lo + hi) \div 2)
         + SumProducts(a, b, j, (lo + hi) \div 2 + 1, hi)
MulAdd(a, b, c) ==
    LET n == Max(Len(a) + Len(b) - 1, Len(c))
    IN  IF Computed(a) /\ Computed(b) /\ Computed(c)
        THEN Carried(SubSeq([j \in 1..n |->
                                SumProducts(a, b, j, Max(1, j + 1 - Len(b)),
                                            Min(Len(a), j))
                                + Digit(c, j - 1)],
                            1, n))
        ELSE <<>>

\* a < b, a <= b
RECURSIVE LessFrom(_, _, _)
LessFrom(a, b, i) ==
    IF i = 0 THEN FALSE
    ELSE IF a[i] # b[i] THEN a[i] < b[i]
    ELSE LessFrom(a, b, i - 1)
Less(a, b) == IF Len(a) # Len(b) THEN Len(a) < Len(b) ELSE LessFrom(a, b, Len(a))
LessEq(a, b) == a = b \/ Less(a, b)

\* quotient and remainder of h by 10^8, by long division from the high digit
RECURSIVE DivModFrom(_, _, _)
DivModFrom(h, i, st) ==
    IF Computed(st) /\ i = 0 THEN st
    ELSE LET r2 == 16 * st.r + h[i]
         IN  DivModFrom(h, i - 1, [q |-> <<r2 \div 10^8>> \o st.q, r |-> r2 % 10^8])
DivMod(h) ==
    LET st == DivModFrom(h, Len(h), [q |-> <<>>, r |-> 0])
    IN  [q |-> Norm(st.q), r |-> st.r]

(***************************************************************************)
(* Signed integers: JS Numbers holding integers, and BigInts of any sign.  *)
(***************************************************************************)
Pos(m) == [neg |-> FALSE, mag |-> m]
Neg(m) == [neg |-> Len(m) # 0, mag |-> m]
IsNegative(v) == v.neg
\* v > m, for a signed v and a natural m
Exceeds(v, m) == ~v.neg /\ Less(m, v.mag)

(***************************************************************************)
(* Strings and the conversions between strings and integers.               *)
(***************************************************************************)
CharAt(s, i) == SubSeq(s, i, i)
DigitChar(d) == CharAt("0123456789abcdef", d + 1)
IsDigit(c) == \E d \in 0..9 : DigitChar(d) = c
DigitVal(c) == CHOOSE d \in 0..9 : DigitChar(d) = c
AllDigits(s) == \A i \in 1..Len(s) : IsDigit(CharAt(s, i))

\* the integer a string of at most 8 decimal digits writes
SmallDecimal(s) ==
    LET D(i) == IF i < Len(s) THEN DigitVal(CharAt(s, Len(s) - i)) * 10^i ELSE 0
    IN  D(0) + D(1) + D(2) + D(3) + D(4) + D(5) + D(6) + D(7)

\* 10^(8 * 2^e)
Square(h) == MulAdd(h, h, <<>>)
RECURSIVE Pow10(_)
Pow10(e) == IF e = 0 THEN FromNat(10^8) ELSE Square(Pow10(e - 1))

\* the largest e with 8 * 2^e < n, for n > 8
RECURSIVE SplitAt(_, _)
SplitAt(n, e) == IF 16 * 2^e < n THEN SplitAt(n, e + 1) ELSE e

\* the integer a string of decimal digits writes, exactly: BigInt(s).  A long
\* string is the integer of its low 8 * 2^e digits plus 10^(8 * 2^e) times
\* the integer of the digits before them
RECURSIVE FromDecimal(_)
FromDecimal(s) ==
    IF Len(s) <= 8 THEN FromNat(SmallDecimal(s))
    ELSE LET e == SplitAt(Len(s), 0)
             k == 8 * 2^e
         IN  MulAdd(FromDecimal(SubSeq(s, 1, Len(s) - k)), Pow10(e),
                    FromDecimal(SubSeq(s, Len(s) - k + 1, Len(s))))

\* the value of a hexadecimal literal 0x...
Hex(s) ==
    Norm(SubSeq([i \in 1..Len(s) |->
                    CHOOSE d \in 0..15 : DigitChar(d) = CharAt(s, Len(s) + 1 - i)],
                1, Len(s)))

\* s without the 0s it starts with
WithoutLeadingZeros(s) ==
    IF \A i \in 1..Len(s) : CharAt(s, i) = "0" THEN ""
    ELSE SubSeq(s, CHOOSE i \in 1..Len(s) :
                        /\ CharAt(s, i) # "0"
                        /\ \A j \in 1..(i - 1) : CharAt(s, j) = "0",
                Len(s))

\* the 8 decimal digits of a natural below 10^8
Eight(n) ==
    DigitChar((n \div 10^7) % 10) \o DigitChar((n \div 10^6) % 10)
    \o DigitChar((n \div 10^5) % 10) \o DigitChar((n \div 10^4) % 10)
    \o DigitChar((n \div 10^3) % 10) \o DigitChar((n \div 10^2) % 10)
    \o DigitChar((n \div 10) % 10) \o DigitChar(n % 10)

\* String(h) and `${h}` of a natural: its decimal digits, eight at a time
RECURSIVE DecimalDigits(_)
Chunks(dm) == IF Computed(dm) THEN DecimalDigits(dm.q) \o Eight(dm.r) ELSE ""
DecimalDigits(h) == IF Len(h) = 0 THEN "" ELSE Chunks(DivMod(h))
ToDecimal(h) == IF Len(h) = 0 THEN "0" ELSE WithoutLeadingZeros(DecimalDigits(h))

\* h.toString(16) of a natural
RECURSIVE HexDigits(_)
HexDigits(h) ==
    IF Len(h) = 0 THEN ""
    ELSE HexDigits(Tail(h)) \o DigitChar(h[1])
ToHex(h) == IF Len(h) = 0 THEN "0" ELSE HexDigits(h)

\* the position of the first occurrence of character c in s, 0 when absent
IndexOf(s, c) ==
    IF \E i \in 1..Len(s) : CharAt(s, i) = c
    THEN CHOOSE i \in 1..Len(s) :
            /\ CharAt(s, i) = c
            /\ \A j \in 1..(i - 1) : CharAt(s, j) # c
    ELSE 0

(***************************************************************************)
(* Number(s) of a string of decimal digits: the double nearest to the      *)
(* integer it writes (ties to the even significand), Infinity from         *)
(* 2^1024 - 2^970 on.                                                      *)
(***************************************************************************)
Infinity == [neg |-> FALSE, inf |-> TRUE]
IsInfinite(v) == "inf" \in DOMAIN v

\* the number of bits of a natural
BitLength(h) ==
    IF Len(h) = 0 THEN 0
    ELSE LET top == h[Len(h)]
         IN  4 * (Len(h) - 1)
             + (IF top >= 8 THEN 4 ELSE IF top >= 4 THEN 3 ELSE IF top >= 2 THEN 2 ELSE 1)

\* bit i (from 0) of a natural
Bit(h, i) == (Digit(h, i \div 4) \div 2^(i % 4)) % 2

\* the double nearest to a natural: 53 significant bits are kept
ToDouble(h) ==
    IF BitLength(h) <= 53 THEN Pos(h)
    ELSE LET s == BitLength(h) - 53
             q == ShiftRight(h, s)
             half == Bit(h, s - 1) = 1
             below == \E i \in 0..(s - 2) : Bit(h, i) = 1
             odd == Bit(h, s) = 1
             up == half /\ (below \/ odd)
             r == ShiftLeft(IF up THEN Add(q, <<1>>) ELSE q, s)
         IN  IF BitLength(r) > 1024 THEN Infinity ELSE Pos(r)

\* Number(s); an integer of more than 309 digits is above every double
Number(s) ==
    LET t == WithoutLeadingZeros(s)
    IN  IF Len(t) > 309 THEN Infinity ELSE ToDouble(FromDecimal(t))

(***************************************************************************)
(* The state: one SteamID object from before its construction on.          *)
(***************************************************************************)
VARIABLES
    build,   \* which of the two versions of the class is running
    status,  \* "none" before the constructor ran, "ok" after it returned,
             \* "failed" after it threw (no object exists then)
    data,    \* this.data
    op,      \* the last call made
    arg,     \* its argument
    err,     \* the message of the Error it threw, or NoError
    out      \* what it returned (renderers and isValid), or NoResult

vars == <<build, status, data, op, arg, err, out>>

NoError == "none"
NoResult == "none"

(***************************************************************************)
(* The class's constants.                                                  *)
(***************************************************************************)
UniverseInvalid == 0
UniversePublic == 1
UniverseDev == 4

TypeInvalid == 0
TypeIndividual == 1
TypeMultiseat == 2
TypeGameServer == 3
TypeAnonGameServer == 4
TypeClan == 7
TypeChat == 8
TypeAnonUser == 10

AllInstances == 0
DesktopInstance == 1

InstanceFlagClan == 524288
InstanceFlagLobby == 262144

\* the two versions differ in the entry of P2PSuperSeeder only
accountTypeChars ==
    IF build = "part_000"
    THEN <<"I", "U", "M", "G", "A", "P", "C", "g", "T", " ", "a">>
    ELSE <<"I", "U", "M", "G", "A", "P", "C", "g", "T", "", "a">>

ErrTooLarge == "Provide steamID exceeds max unsigned 32-bit integer."
ErrInvalid == "Provided SteamID is invalid."
ErrNotNumeric == "Provided SteamID is not numeric."
ErrIndividualOnly == "This can only be used on individual SteamID."
ErrAccountID == "Account id can not be higher than 0xFFFFFFFF."
ErrAccountInstance == "Account instance can not be higher than 0xFFFF."
ErrAccountType == "Account type can not be higher than 0xF."
ErrAccountUniverse == "Account universe can not be higher than 0xFF."
\* the RangeError of BigInt(Infinity)
ErrNotInteger ==
    "The number Infinity cannot be converted to a BigInt because it is not an integer"

(***************************************************************************)
(* The bit fields.                                                         *)
(***************************************************************************)
\* (this.data >> BigInt(bitOffset)) & BigInt(valueMask)
get(d, bitOffset, valueMask) == BitAnd(ShiftRight(d, bitOffset), valueMask)

\* (a faulty variant: the mask that clears the field is not shifted to it)
SetClearsLowBits(d, bitOffset, valueMask, val) ==
    BitOr(BitAndNot(d, valueMask),
          ShiftLeft(BitAnd(val, valueMask), bitOffset))

\* (this.data & ~(valMask << bOffset)) | ((val & valMask) << bOffset)
set(d, bitOffset, valueMask, val) ==
    BitOr(BitAndNot(d, ShiftLeft(valueMask, bitOffset)),
          ShiftLeft(BitAnd(val, valueMask), bitOffset))

\* the valueMask literals 4294967295 (0xFFFFFFFF), 1048575 (0xFFFFF), 15, 255
AccountIDMask == FromDecimal("4294967295")
AccountInstanceMask == FromDecimal("1048575")
AccountTypeMask == FromDecimal("15")
AccountUniverseMask == FromDecimal("255")

\* the literals the setters compare with
MaxAccountID == Hex("ffffffff")
MaxAccountInstance == Hex("ffff")
MaxAccountType == Hex("f")
MaxAccountUniverse == Hex("ff")

getAccountID(d) == get(d, 0, AccountIDMask)
getAccountInstance(d) == ToNat(get(d, 32, AccountInstanceMask))
getAccountType(d) == ToNat(get(d, 52, AccountTypeMask))
getAccountUniverse(d) == ToNat(get(d, 56, AccountUniverseMask))

\* a setter's outcome: the Error thrown, if any, and this.data afterwards.
\* Each setter evaluates BigInt(value) first, which throws on Infinity
Thrown(e, d) == [err |-> e, data |-> d]
Returned(d) == [err |-> NoError, data |-> d]

\* (a faulty variant: 0xFFFFFFFF itself is refused)
SetAccountIDBelowMask(d, value) ==
    IF IsInfinite(value) THEN Thrown(ErrNotInteger, d)
    ELSE IF IsNegative(value) \/ ~Less(value.mag, MaxAccountID)
    THEN Thrown(ErrAccountID, d)
    ELSE Returned(set(d, 0, AccountIDMask, value.mag))

setAccountID(d, value) ==
    IF IsInfinite(value) THEN Thrown(ErrNotInteger, d)
    ELSE IF IsNegative(value) \/ Exceeds(value, MaxAccountID)
    THEN Thrown(ErrAccountID, d)
    ELSE Returned(set(d, 0, AccountIDMask, value.mag))

setAccountInstance(d, value) ==
    IF IsInfinite(value) THEN Thrown(ErrNotInteger, d)
    ELSE IF IsNegative(value) \/ Exceeds(value, MaxAccountInstance)
    THEN Thrown(ErrAccountInstance, d)
    ELSE Returned(set(d, 32, AccountInstanceMask, value.mag))

setAccountType(d, value) ==
    IF IsInfinite(value) THEN Thrown(ErrNotInteger, d)
    ELSE IF IsNegative(value) \/ Exceeds(value, MaxAccountType)
    THEN Thrown(ErrAccountType, d)
    ELSE Returned(set(d, 52, AccountTypeMask, value.mag))

setAccountUniverse(d, value) ==
    IF IsInfinite(value) THEN Thrown(ErrNotInteger, d)
    ELSE IF IsNegative(value) \/ Exceeds(value, MaxAccountUniverse)
    THEN Thrown(ErrAccountUniverse, d)
    ELSE Returned(set(d, 56, AccountUniverseMask, value.mag))

(***************************************************************************)
(* The three grammars.                                                     *)
(***************************************************************************)
NoMatch == [matched |-> FALSE]

\* 0|[1-9][0-9]{0,9}
IsId(s) ==
    \/ s = "0"
    \/ /\ Len(s) \in 1..10
       /\ AllDigits(s)
       /\ Head(s) # "0"

\* /^STEAM_(?<universe>[0-4]):(?<authServer>[0-1]):(?<id>0|[1-9][0-9]{0,9})$/
matchSteam2(s) ==
    IF /\ Len(s) >= 11
       /\ SubSeq(s, 1, 6) = "STEAM_"
       /\ CharAt(s, 7) \in {"0", "1", "2", "3", "4"}
       /\ CharAt(s, 8) = ":"
       /\ CharAt(s, 9) \in {"0", "1"}
       /\ CharAt(s, 10) = ":"
       /\ IsId(SubSeq(s, 11, Len(s)))
    THEN [matched |-> TRUE, universe |-> CharAt(s, 7),
          authServer |-> CharAt(s, 9), id |-> SubSeq(s, 11, Len(s))]
    ELSE NoMatch

\* /^\[(?<type>[AGMPCgcLTIUai]):(?<universe>[0-4]):(?<id>0|[1-9][0-9]{0,9})
\*   (?:\:(?<instance>[0-9]+))?\]$/
\* instance is "" when the group did not take part in the match
matchSteam3(s) ==
    LET body == SubSeq(s, 6, Len(s) - 1)
        colon == IndexOf(body, ":")
        id == IF colon = 0 THEN body ELSE SubSeq(body, 1, colon - 1)
        instance == IF colon = 0 THEN "" ELSE SubSeq(body, colon + 1, Len(body))
    IN  IF /\ Len(s) >= 7
           /\ CharAt(s, 1) = "["
           /\ CharAt(s, 2) \in {"A", "G", "M", "P", "C", "g", "c", "L", "T",
                                "I", "U", "a", "i"}
           /\ CharAt(s, 3) = ":"
           /\ CharAt(s, 4) \in {"0", "1", "2", "3", "4"}
           /\ CharAt(s, 5) = ":"
           /\ CharAt(s, Len(s)) = "]"
           /\ IsId(id)
           /\ colon # 0 => (instance # "" /\ AllDigits(instance))
        THEN [matched |-> TRUE, type |-> CharAt(s, 2), universe |-> CharAt(s, 4),
              id |-> id, hasInstance |-> colon # 0, instance |-> instance]
        ELSE NoMatch

\* a constructor or setFromUInt64 argument: null, a string or a bigint
Null == [kind |-> "null"]
Str(s) == [kind |-> "string", str |-> s]
Big(v) == [kind |-> "bigint", int |-> v]

\* value.toString()
toString(value) ==
    IF value.kind = "string" THEN value.str
    ELSE (IF value.int.neg THEN "-" ELSE "") \o ToDecimal(value.int.mag)

\* BigInt(value)
BigInt(value) ==
    IF value.kind = "string" THEN Pos(FromDecimal(value.str)) ELSE value.int

\* isNumeric: n > 0 for a bigint, /^[1-9][0-9]{0,19}$/ for a string
isNumeric(n) ==
    IF n.kind = "bigint" THEN ~n.int.neg /\ Len(n.int.mag) # 0
    ELSE /\ Len(n.str) \in 1..20
         /\ AllDigits(n.str)
         /\ Head(n.str) # "0"

(***************************************************************************)
(* The 32-bit integer operators of JS Numbers.                             *)
(***************************************************************************)
\* the low 32 bits of a natural
Low32(n) == Norm(SubSeq(n, 1, Min(8, Len(n))))
\* 2^32 - p, for 0 < p < 2^32
Complement32(p) == Add(BitAndNot(Hex("ffffffff"), p), <<1>>)
\* the 32 bits of ToInt32(v)
Bits32(v) == IF v.neg THEN Low32(Complement32(Low32(v.mag))) ELSE Low32(v.mag)
\* the signed integer those 32 bits stand for
Int32(p) == IF Digit(p, 7) >= 8 THEN Neg(Complement32(p)) ELSE Pos(p)
\* a << n and a | b on Numbers
NumberShiftLeft(a, n) == Int32(Low32(ShiftLeft(Bits32(a), n)))
NumberOr(a, b) == Int32(BitOr(Bits32(a), Bits32(b)))
\* a & b on naturals below 2^31
NumberAnd(a, b) == ToNat(BitAnd(FromNat(a), FromNat(b)))

(***************************************************************************)
(* The constructor.                                                        *)
(***************************************************************************)
\* the literal 4294967295 the parsed account numbers are compared with
MaxSteamID == FromDecimal("4294967295")

\* array_search(needle, haystack) / haystack.findIndex(e => e === needle)
array_search(needle, haystack) ==
    IF \E i \in 1..Len(haystack) : haystack[i] = needle
    THEN Pos(FromNat((CHOOSE i \in 1..Len(haystack) :
                        /\ haystack[i] = needle
                        /\ \A j \in 1..(i - 1) : haystack[j] # needle) - 1))
    ELSE Neg(<<1>>)

\* whether the call with outcome r has thrown, which ends the constructor
Threw(r) == r.err # NoError

\* the branch of a string matching the Steam2 grammar
fromSteam2(m) ==
    LET accountID == Number(m.id).mag
        parsed == ToNat(Number(m.universe).mag)
        universe == IF parsed = UniverseInvalid THEN UniversePublic ELSE parsed
        authServer == Number(m.authServer).mag
        combined == NumberOr(NumberShiftLeft(Pos(accountID), 1), Pos(authServer))
        r1 == setAccountUniverse(<<>>, Pos(FromNat(universe)))
        r2 == IF Threw(r1) THEN r1 ELSE setAccountInstance(r1.data, Pos(FromNat(DesktopInstance)))
        r3 == IF Threw(r2) THEN r2 ELSE setAccountType(r2.data, Pos(FromNat(TypeIndividual)))
    IN  IF LessEq(MaxSteamID, accountID)
        THEN Thrown(ErrTooLarge, <<>>)
        ELSE IF Threw(r3) THEN r3 ELSE setAccountID(r3.data, combined)

\* the instance the Steam3 branch resolves: a Number, which for a long
\* instance segment is the nearest double, or Infinity
steam3Instance(m) ==
    LET type == IF m.type = "i" THEN "I" ELSE m.type
        first == IF type = "T" \/ type = "g" THEN Pos(FromNat(AllInstances))
                 ELSE IF m.hasInstance THEN Number(m.instance)
                 ELSE IF type = "U" THEN Pos(FromNat(DesktopInstance))
                 ELSE Pos(FromNat(AllInstances))
    IN  IF type = "c" \/ type = "L" THEN Pos(FromNat(InstanceFlagClan)) ELSE first

\* the branch of a string matching the Steam3 grammar
fromSteam3(m) ==
    LET accountID == Number(m.id).mag
        type == IF m.type = "i" THEN "I" ELSE m.type
        instanceID == steam3Instance(m)
        r1 == IF type = "c" \/ type = "L" THEN Returned(<<>>)
              ELSE setAccountType(<<>>, array_search(type, accountTypeChars))
        r2 == IF Threw(r1) THEN r1 ELSE setAccountUniverse(r1.data, Number(m.universe))
        r3 == IF Threw(r2) THEN r2 ELSE setAccountInstance(r2.data, instanceID)
    IN  IF LessEq(MaxSteamID, accountID)
        THEN Thrown(ErrTooLarge, <<>>)
        ELSE IF Threw(r3) THEN r3 ELSE setAccountID(r3.data, Pos(accountID))

\* new SteamID(value): the Error thrown, if any, and this.data at that point
construct(value) ==
    IF value = Null THEN Returned(<<>>)
    ELSE LET s == toString(value)
             m2 == matchSteam2(s)
             m3 == matchSteam3(s)
         IN  IF m2.matched THEN fromSteam2(m2)
             ELSE IF m3.matched THEN fromSteam3(m3)
             ELSE IF isNumeric(value) THEN Returned(BigInt(value).mag)
             ELSE Thrown(ErrInvalid, <<>>)

\* setFromUInt64(value)
setFromUInt64(d, value) ==
    IF isNumeric(value) THEN Returned(BigInt(value).mag)
    ELSE Thrown(ErrNotNumeric, d)

(***************************************************************************)
(* The renderers and isValid.                                              *)
(***************************************************************************)
renderSteam2(d) ==
    IF getAccountType(d) \in {TypeInvalid, TypeIndividual}
    THEN LET universe == getAccountUniverse(d)
             accountID == getAccountID(d)
         IN  "STEAM_" \o ToDecimal(FromNat(universe)) \o ":"
                \o ToDecimal(BitAnd(accountID, <<1>>)) \o ":"
                \o ToDecimal(ShiftRight(accountID, 1))
    ELSE ToDecimal(d)

\* (a faulty variant: the table is read one entry too far)
RenderSteam3NextEntry(d) ==
    LET accountInstance == getAccountInstance(d)
        accountType == getAccountType(d)
        default == IF accountType + 2 <= Len(accountTypeChars)
                   THEN accountTypeChars[accountType + 2] ELSE "i"
        accountTypeChar ==
            IF accountType = TypeChat
            THEN IF NumberAnd(accountInstance, InstanceFlagClan) # 0 THEN "c"
                 ELSE IF NumberAnd(accountInstance, InstanceFlagLobby) # 0 THEN "L"
                 ELSE default
            ELSE default
        renderInstance == accountType \in {TypeAnonGameServer, TypeMultiseat}
        ret == "[" \o accountTypeChar \o ":" \o ToDecimal(FromNat(getAccountUniverse(d)))
                 \o ":" \o ToDecimal(getAccountID(d))
    IN  IF renderInstance
        THEN ret \o ":" \o ToDecimal(FromNat(accountInstance)) \o "]"
        ELSE ret \o "]"

\* (a faulty variant: the Lobby flag is looked at before the Clan flag)
RenderSteam3LobbyFirst(d) ==
    LET accountInstance == getAccountInstance(d)
        accountType == getAccountType(d)
        default == IF accountType + 1 <= Len(accountTypeChars)
                   THEN accountTypeChars[accountType + 1] ELSE "i"
        accountTypeChar ==
            IF accountType = TypeChat
            THEN IF NumberAnd(accountInstance, InstanceFlagLobby) # 0 THEN "L"
                 ELSE IF NumberAnd(accountInstance, InstanceFlagClan) # 0 THEN "c"
                 ELSE default
            ELSE default
        renderInstance == accountType \in {TypeAnonGameServer, TypeMultiseat}
        ret == "[" \o accountTypeChar \o ":" \o ToDecimal(FromNat(getAccountUniverse(d)))
                 \o ":" \o ToDecimal(getAccountID(d))
    IN  IF renderInstance
        THEN ret \o ":" \o ToDecimal(FromNat(accountInstance)) \o "]"
        ELSE ret \o "]"

renderSteam3(d) ==
    LET accountInstance == getAccountInstance(d)
        accountType == getAccountType(d)
        default == IF accountType + 1 <= Len(accountTypeChars)
                   THEN accountTypeChars[accountType + 1] ELSE "i"
        accountTypeChar ==
            IF accountType = TypeChat
            THEN IF NumberAnd(accountInstance, InstanceFlagClan) # 0 THEN "c"
                 ELSE IF NumberAnd(accountInstance, InstanceFlagLobby) # 0 THEN "L"
                 ELSE default
            ELSE default
        renderInstance == accountType \in {TypeAnonGameServer, TypeMultiseat}
        ret == "[" \o accountTypeChar \o ":" \o ToDecimal(FromNat(getAccountUniverse(d)))
                 \o ":" \o ToDecimal(getAccountID(d))
    IN  IF renderInstance
        THEN ret \o ":" \o ToDecimal(FromNat(accountInstance)) \o "]"
        ELSE ret \o "]"

\* the switch of replace(str), for one character
replaceChar(c) ==
    CASE c = "0" -> "b" [] c = "1" -> "c" [] c = "2" -> "d" [] c = "3" -> "f"
      [] c = "4" -> "g" [] c = "5" -> "h" [] c = "6" -> "j" [] c = "7" -> "k"
      [] c = "8" -> "m" [] c = "9" -> "n" [] c = "a" -> "p" [] c = "b" -> "q"
      [] c = "c" -> "e" [] c = "d" -> "t" [] c = "e" -> "v" [] c = "f" -> "w"
      [] OTHER -> ""

RECURSIVE replace(_)
replace(str) ==
    IF str = "" THEN "" ELSE replaceChar(Head(str)) \o replace(Tail(str))

\* (a faulty variant: the hyphen goes in at length / 2 rounded up)
RenderSteamInviteRoundsUp(d) ==
    IF getAccountType(d) \in {TypeInvalid, TypeIndividual}
    THEN LET code == replace(ToHex(getAccountID(d)))
             length == Len(code)
             offset == (length + 1) \div 2
         IN  [err |-> NoError,
              out |-> IF length > 3
                      THEN SubSeq(code, 1, offset) \o "-" \o SubSeq(code, offset + 1, length)
                      ELSE code]
    ELSE [err |-> ErrIndividualOnly, out |-> NoResult]

\* (a faulty variant: the switch has no default branch that throws)
RenderSteamInviteOfAnyType(d) ==
    LET code == replace(ToHex(getAccountID(d)))
        length == Len(code)
        offset == length \div 2
    IN  [err |-> NoError,
         out |-> IF length > 3
                 THEN SubSeq(code, 1, offset) \o "-" \o SubSeq(code, offset + 1, length)
                 ELSE code]

\* renderSteamInvite(): the Error thrown, if any, and the string returned.
\* length / 2 is a fraction for an odd length; substring truncates it
renderSteamInvite(d) ==
    IF getAccountType(d) \in {TypeInvalid, TypeIndividual}
    THEN LET code == replace(ToHex(getAccountID(d)))
             length == Len(code)
             offset == length \div 2
         IN  [err |-> NoError,
              out |-> IF length > 3
                      THEN SubSeq(code, 1, offset) \o "-" \o SubSeq(code, offset + 1, length)
                      ELSE code]
    ELSE [err |-> ErrIndividualOnly, out |-> NoResult]

\* (a faulty variant: an Individual's instance is not looked at)
IsValidIgnoresIndividualInstance(d) ==
    LET accountType == getAccountType(d)
        accountUniverse == getAccountUniverse(d)
        accountID == getAccountID(d)
        accountInstance == getAccountInstance(d)
    IN  IF accountType <= TypeInvalid \/ accountType > TypeAnonUser THEN FALSE
        ELSE IF accountUniverse <= UniverseInvalid \/ accountUniverse > UniverseDev
        THEN FALSE
        ELSE IF accountType = TypeIndividual /\ Len(accountID) = 0
        THEN FALSE
        ELSE IF accountType = TypeClan /\ (Len(accountID) = 0 \/ accountInstance # 0)
        THEN FALSE
        ELSE IF accountType = TypeGameServer /\ Len(accountID) = 0
        THEN FALSE
        ELSE TRUE

isValid(d) ==
    LET accountType == getAccountType(d)
        accountUniverse == getAccountUniverse(d)
        accountID == getAccountID(d)
        accountInstance == getAccountInstance(d)
    IN  IF accountType <= TypeInvalid \/ accountType > TypeAnonUser THEN FALSE
        ELSE IF accountUniverse <= UniverseInvalid \/ accountUniverse > UniverseDev
        THEN FALSE
        ELSE IF accountType = TypeIndividual /\ (Len(accountID) = 0 \/ accountInstance # 0)
        THEN FALSE
        ELSE IF accountType = TypeClan /\ (Len(accountID) = 0 \/ accountInstance # 0)
        THEN FALSE
        ELSE IF accountType = TypeGameServer /\ Len(accountID) = 0
        THEN FALSE
        ELSE TRUE

(***************************************************************************)
(* The calls, as actions.                                                  *)
(***************************************************************************)
Init ==
    /\ build \in {"SteamID.ts", "part_000"}
    /\ status = "none"
    /\ data = <<>>
    /\ op = "none"
    /\ arg = Null
    /\ err = NoError
    /\ out = NoResult

\* new SteamID(value); after a throw there is no object to call
Construct(value) ==
    /\ status = "none"
    /\ \E r \in {construct(value)} :
           /\ status' = IF r.err = NoError THEN "ok" ELSE "failed"
           /\ data' = r.data
           /\ err' = r.err
    /\ op' = "constructor"
    /\ arg' = value
    /\ out' = NoResult
    /\ UNCHANGED build

\* the calls that may change this.data
SetAccountID(v) ==
    /\ status = "ok"
    /\ \E r \in {setAccountID(data, v)} : data' = r.data /\ err' = r.err
    /\ op' = "setAccountID"
    /\ arg' = v
    /\ out' = NoResult
    /\ UNCHANGED <<build, status>>

SetAccountInstance(v) ==
    /\ status = "ok"
    /\ \E r \in {setAccountInstance(data, v)} : data' = r.data /\ err' = r.err
    /\ op' = "setAccountInstance"
    /\ arg' = v
    /\ out' = NoResult
    /\ UNCHANGED <<build, status>>

SetAccountType(v) ==
    /\ status = "ok"
    /\ \E r \in {setAccountType(data, v)} : data' = r.data /\ err' = r.err
    /\ op' = "setAccountType"
    /\ arg' = v
    /\ out' = NoResult
    /\ UNCHANGED <<build, status>>

SetAccountUniverse(v) ==
    /\ status = "ok"
    /\ \E r \in {setAccountUniverse(data, v)} : data' = r.data /\ err' = r.err
    /\ op' = "setAccountUniverse"
    /\ arg' = v
    /\ out' = NoResult
    /\ UNCHANGED <<build, status>>

SetFromUInt64(v) ==
    /\ status = "ok"
    /\ \E r \in {setFromUInt64(data, v)} : data' = r.data /\ err' = r.err
    /\ op' = "setFromUInt64"
    /\ arg' = v
    /\ out' = NoResult
    /\ UNCHANGED <<build, status>>

\* the calls that only read this.data
RenderSteam2 ==
    /\ status = "ok"
    /\ out' = renderSteam2(data)
    /\ err' = NoError
    /\ op' = "renderSteam2"
    /\ arg' = Null
    /\ UNCHANGED <<build, status, data>>

RenderSteam3 ==
    /\ status = "ok"
    /\ out' = renderSteam3(data)
    /\ err' = NoError
    /\ op' = "renderSteam3"
    /\ arg' = Null
    /\ UNCHANGED <<build, status, data>>

RenderSteamInvite ==
    /\ status = "ok"
    /\ \E r \in {renderSteamInvite(data)} : out' = r.out /\ err' = r.err
    /\ op' = "renderSteamInvite"
    /\ arg' = Null
    /\ UNCHANGED <<build, status, data>>

IsValid ==
    /\ status = "ok"
    /\ out' = isValid(data)
    /\ err' = NoError
    /\ op' = "isValid"
    /\ arg' = Null
    /\ UNCHANGED <<build, status, data>>

(***************************************************************************)
(* The arguments the calls are tried with.                                 *)
(***************************************************************************)
Num(s) == Pos(FromDecimal(s))
MinusOne == Neg(<<1>>)

\* for each setter: 0, the largest value it takes, values next to it, and
\* values out of the field's width
AccountIDArgs ==
    {Num("0"), Num("4294967294"), Num("4294967295"), Num("4294967296"), MinusOne}
AccountInstanceArgs ==
    {Num("0"), Num("65535"), Num("65536"), Num("1048575"), Num("1048576"), MinusOne}
AccountTypeArgs == {Num("0"), Num("3"), Num("7"), Num("15"), Num("16"), MinusOne}
AccountUniverseArgs == {Num("0"), Num("255"), Num("256"), MinusOne}

\* an Individual, 2^64 - 1, 2^64 plus the Individual, an AnonUser of
\* universe 4, type 11 of universe 5; then what isNumeric refuses
UInt64Args ==
    {Str("76561197960287930"), Str("18446744073709551615"),
     Big(Num("18523305271669839546")),
     Str("333266372425416709"), Str("409827566090715141"),
     Str("0"), Str("7x"), Big(MinusOne)}

ObjectArgs ==
    {Null, Str("[U:1:1]"), Str("STEAM_0:1:0"), Str("76561197960287930"),
     Str("18523305271669839546"), Str("[c:1:5]"), Str("SteamID")}

\* strings of the Steam2 grammar: account numbers 1, 22202, 79, 2^31 - 1,
\* 2^31, 2^32 - 2 and 0, universe 0, and halves from 2^31 on
Steam2Args ==
    {Str("STEAM_1:1:0"), Str("STEAM_1:0:11101"), Str("STEAM_2:0:1"),
     Str("STEAM_4:1:39"), Str("STEAM_3:1:1073741823"),
     Str("STEAM_1:0:1073741824"), Str("STEAM_4:0:2147483647"),
     Str("STEAM_1:0:0"), Str("STEAM_0:1:5"),
     Str("STEAM_1:1:2147483648"), Str("STEAM_1:0:2147483649"),
     Str("STEAM_2:1:4294967294"), Str("STEAM_1:0:4294967295"),
     Str("STEAM_1:0:9999999999")}

\* strings of the Steam3 grammar: every type character, with and without
\* an instance, the largest account numbers, and instances that are no
\* double (2^53 + 1 and 10^39), that are written with 0s in front, and of
\* 310 digits (10^310 - 1, which Number turns into Infinity)
Steam3Args ==
    {Str("[U:1:1]"), Str("[U:1:22202]"), Str("[U:1:5:0]"), Str("[U:2:5:4]"),
     Str("[U:1:5:1]"), Str("[U:1:2748]"), Str("[U:1:1193046]"),
     Str("[U:1:19088743]"), Str("[U:1:0]"), Str("[U:1:4294967294]"), Str("[U:1:4294967295]"),
     Str("[I:0:0]"), Str("[i:1:7]"), Str("[I:1:7:2]"),
     Str("[M:1:5]"), Str("[M:2:9:3]"),
     Str("[G:1:5]"), Str("[G:1:5:7]"), Str("[G:1:0]"),
     Str("[G:1:5:65535]"), Str("[G:1:5:65536]"), Str("[G:1:5:1048576]"),
     Str("[A:1:5]"), Str("[A:1:5:7]"),
     Str("[P:3:9]"), Str("[C:4:9]"), Str("[C:4:9:000]"),
     Str("[g:1:5]"), Str("[g:1:5:7]"), Str("[g:1:5:99999999999]"),
     Str("[T:1:5]"), Str("[T:1:5:9]"),
     Str("[c:1:5]"), Str("[L:1:5]"), Str("[L:1:5:0]"),
     Str("[a:1:5]"), Str("[a:3:5:1]"),
     Str("[U:1:5:9007199254740993]"), Str("[G:1:5:00000000000000000007]"),
     Str("[I:1:7:1000000000000000000000000000000000000000]"),
     Str("[G:1:5:9999999999999999999999999999999999999999999999999999999999999999999999999999999999999999999999999999999999999999999999999999999999999999999999999999999999999999999999999999999999999999999999999999999999999999999999999999999999999999999999999999999999999999999999999999999999999999999999999999999999999999999999]")}

\* packed values: every type code from 0 to 15, Chat with each flag, the
\* largest fields, and values from 2^64 on
PackedArgs ==
    {Str("78"), Str("1"), Str("76561197960287930"), Str("76561197960553658"),
     Str("76561193665298433"), Str("153122400215498761"),
     Str("85568392920039429"), Str("85568392920039424"),
     Str("90072022612180997"), Str("94575592174780421"),
     Str("99079191802150917"), Str("103582791429521413"),
     Str("108086391056891909"), Str("110338190870577157"),
     Str("109212290963734533"), Str("111464090777419781"),
     Str("108649341010313221"), Str("112589990684262405"),
     Str("333266372425416709"), Str("333266376720383998"),
     Str("121597189939003397"), Str("126100789566373893"),
     Str("130604389193744389"), Str("135107988821114885"),
     Str("139611588448485381"), Str("364791569817010181"),
     Str("18446744073709551615"), Str("18446744073709551616"),
     Str("99999999999999999999"), Big(Num("18523305271669839546")),
     Big(Num("1180591620717411303424"))}

\* what no grammar accepts
RefusedArgs ==
    {Str(""), Str("0"), Str("012"), Str("-5"), Str("SteamID"),
     Str("123456789012345678901"), Str("STEAM_5:0:1"), Str("STEAM_1:2:1"),
     Str("STEAM_1:0:01"), Str("STEAM_1:0:12345678901"), Str("steam_1:0:1"),
     Str("[X:1:1]"), Str("[U:5:1]"), Str("[U:1:01]"), Str("[U:1:1"),
     Str("[U:1:1:]"), Str("[U:1:1:2:3]"), Str("[ :1:5]"), Str("[:1:5]"),
     Big(Num("0")), Big(MinusOne)}

FormatArgs == {Null} \cup Steam2Args \cup Steam3Args \cup PackedArgs \cup RefusedArgs

Next ==
    \/ \E value \in ObjectArgs : Construct(value)
    \/ \E v \in AccountIDArgs : SetAccountID(v)
    \/ \E v \in AccountInstanceArgs : SetAccountInstance(v)
    \/ \E v \in AccountTypeArgs : SetAccountType(v)
    \/ \E v \in AccountUniverseArgs : SetAccountUniverse(v)
    \/ \E v \in UInt64Args : SetFromUInt64(v)
    \/ RenderSteam2
    \/ RenderSteam3
    \/ RenderSteamInvite
    \/ IsValid

Spec == Init /\ [][Next]_vars

\* the formats alone: one object, of any accepted form, and what it renders
NextFormats ==
    \/ \E value \in FormatArgs : Construct(value)
    \/ RenderSteam2
    \/ RenderSteam3
    \/ RenderSteamInvite
    \/ IsValid

SpecFormats == Init /\ [][NextFormats]_vars

(***************************************************************************)
(* The properties.                                                         *)
(***************************************************************************)
\* the four fields of a packed value
Fields(d) ==
    <<getAccountID(d), getAccountInstance(d), getAccountType(d), getAccountUniverse(d)>>

\* v is in [0, mask]
InRange(v, mask) == ~v.neg /\ LessEq(v.mag, mask)

\* C1: a successful call of one field setter leaves the results of the
\* other three getters as they were, whatever the state it is called in.
C1_FieldIsolation ==
    [][/\ (op' = "setAccountID" /\ err' = NoError) =>
            /\ getAccountInstance(data') = getAccountInstance(data)
            /\ getAccountType(data') = getAccountType(data)
            /\ getAccountUniverse(data') = getAccountUniverse(data)
       /\ (op' = "setAccountInstance" /\ err' = NoError) =>
            /\ getAccountID(data') = getAccountID(data)
            /\ getAccountType(data') = getAccountType(data)
            /\ getAccountUniverse(data') = getAccountUniverse(data)
       /\ (op' = "setAccountType" /\ err' = NoError) =>
            /\ getAccountID(data') = getAccountID(data)
            /\ getAccountInstance(data') = getAccountInstance(data)
            /\ getAccountUniverse(data') = getAccountUniverse(data)
       /\ (op' = "setAccountUniverse" /\ err' = NoError) =>
            /\ getAccountID(data') = getAccountID(data)
            /\ getAccountInstance(data') = getAccountInstance(data)
            /\ getAccountType(data') = getAccountType(data)]_vars

\* a type setter has succeeded on an object whose other fields are all ones
\* and whose packed value is above 2^64
C1_Witness ==
    /\ op = "setAccountType"
    /\ err = NoError
    /\ getAccountType(data) = 7
    /\ getAccountID(data) = Hex("ffffffff")
    /\ getAccountInstance(data) = 65535
    /\ getAccountUniverse(data) = 255
    /\ Less(Hex("ffffffffffffffff"), data)

\* what C2 says of one setter: it takes every value of [0, mask], and the
\* getter then returns that value; it refuses every other value
SetterTakesItsRange(name, mask, message, got) ==
    op = name =>
        IF InRange(arg, mask)
        THEN err = NoError /\ got = arg.mag
        ELSE err = message

\* C2: each setter succeeds on every value of [0, mask] of its field (masks
\* 0xFFFFFFFF, 0xFFFFF, 0xF, 0xFF), the getter then returning the value, and
\* fails with its field's error on every value outside.
C2_SettersTakeTheirRange ==
    /\ SetterTakesItsRange("setAccountID", Hex("ffffffff"), ErrAccountID,
                           getAccountID(data))
    /\ SetterTakesItsRange("setAccountInstance", Hex("fffff"), ErrAccountInstance,
                           FromNat(getAccountInstance(data)))
    /\ SetterTakesItsRange("setAccountType", Hex("f"), ErrAccountType,
                           FromNat(getAccountType(data)))
    /\ SetterTakesItsRange("setAccountUniverse", Hex("ff"), ErrAccountUniverse,
                           FromNat(getAccountUniverse(data)))

\* C3 as claimed: setAccountID(0xFFFFFFFF) fails with the out-of-range error
\* and setAccountID(0xFFFFFFFE) succeeds.
C3_AsClaimed ==
    op = "setAccountID" =>
        /\ arg = Num("4294967295") => err = ErrAccountID
        /\ arg = Num("4294967294") => err = NoError

\* C3 as amended: setAccountID(0xFFFFFFFF) succeeds, and setAccountID(0xFFFFFFFE)
\* succeeds.
C3_Boundary ==
    op = "setAccountID" =>
        /\ arg = Num("4294967295") => err = NoError
        /\ arg = Num("4294967294") => err = NoError

\* setAccountID(0xFFFFFFFF) has returned
C3_Witness ==
    op = "setAccountID" /\ arg = Num("4294967295") /\ err = NoError

\* C4: isValid() returns false on the object made with no input, and true
\* on the object made from "[U:1:1]".
C4_IsValidOfEmptyAndU11 ==
    op = "isValid" =>
        /\ data = construct(Null).data => out = FALSE
        /\ data = construct(Str("[U:1:1]")).data => out = TRUE

\* the strings STEAM_{u}:{a&1}:{a>>1} with a in [1, 2^32 - 2], u in [1, 4]
IsSteam2Of32BitAccount(s) ==
    LET m == matchSteam2(s)
    IN  /\ m.matched
        /\ m.universe \in {"1", "2", "3", "4"}
        /\ Less(FromDecimal(m.id), Hex("80000000"))
        /\ ~(m.id = "0" /\ m.authServer = "0")
        /\ ~(m.id = "2147483647" /\ m.authServer = "1")

\* C5: for every account number a in [1, 2^32 - 2] and universe u in [1, 4],
\* constructing from STEAM_{u}:{a&1}:{a>>1} succeeds and renderSteam2() on the
\* object returns the same string.
C5_Steam2RoundTrip ==
    (op = "constructor" /\ arg.kind = "string" /\ IsSteam2Of32BitAccount(arg.str)) =>
        /\ err = NoError
        /\ renderSteam2(data) = arg.str

\* the object made from what renderSteam3() returns on d has d's four fields
Steam3RoundTrips(d) ==
    LET again == construct(Str(renderSteam3(d)))
    IN  again.err = NoError /\ Fields(again.data) = Fields(d)

\* the strings of the Steam3 grammar whose type is not Chat, AnonGameServer
\* or Multiseat
IsSteam3OfPlainType(s) ==
    LET m == matchSteam3(s)
    IN  m.matched /\ m.type \notin {"T", "c", "L", "A", "M"}

\* C6 as claimed: for every string of the Steam3 grammar whose type is not
\* Chat, AnonGameServer or Multiseat, constructing from it succeeds, and
\* constructing again from renderSteam3() of the object gives the same
\* universe, type, account number and instance.
C6_AsClaimed ==
    (op = "constructor" /\ arg.kind = "string" /\ IsSteam3OfPlainType(arg.str)) =>
        err = NoError /\ Steam3RoundTrips(data)

\* the instance segment of m is absent, or ignored (type g), or names the
\* instance the type character gets without one (1 for U, 0 otherwise)
KeepsDefaultInstance(m) ==
    \/ ~m.hasInstance
    \/ m.type = "g"
    \/ FromDecimal(m.instance) = FromNat(IF m.type = "U" THEN 1 ELSE 0)

\* C6 as amended: the same, for the strings whose account number is below
\* 4294967295 and whose instance segment, if any, is ignored (type g) or
\* names the default instance of the type character (1 for U, 0 otherwise).
C6_Steam3RoundTrip ==
    (/\ op = "constructor"
     /\ arg.kind = "string"
     /\ IsSteam3OfPlainType(arg.str)
     /\ Less(FromDecimal(matchSteam3(arg.str).id), Hex("ffffffff"))
     /\ KeepsDefaultInstance(matchSteam3(arg.str))) =>
        err = NoError /\ Steam3RoundTrips(data)

\* an object made from such a string with an instance segment, of a type
\* other than g
C6_Witness ==
    /\ op = "constructor"
    /\ arg.kind = "string"
    /\ IsSteam3OfPlainType(arg.str)
    /\ matchSteam3(arg.str).hasInstance
    /\ matchSteam3(arg.str).type = "U"
    /\ KeepsDefaultInstance(matchSteam3(arg.str))
    /\ err = NoError
    /\ getAccountInstance(data) = 1

\* character i (from 1) of the invite code of account number a, before the
\* hyphen goes in: the substitute of a's i-th hexadecimal digit from the left
InviteChar(a, i) ==
    CharAt("bcdfghjkmnpqetvw", Digit(a, Max(Len(a), 1) - i) + 1)

\* C7: on an object of type Invalid or Individual renderSteamInvite() returns
\* the hexadecimal digits of the account number, each replaced by the fixed
\* substitution 0123456789abcdef -> bcdfghjkmnpqetvw, with one hyphen at index
\* floor(length / 2) exactly when the length exceeds 3; 78 gives "gv", 22202
\* "hj-qp", 287930 "gj-gqp".
C7_InviteCode ==
    (op = "renderSteamInvite" /\ getAccountType(data) \in {0, 1}) =>
        LET a == getAccountID(data)
            n == Max(Len(a), 1)
            k == n \div 2
        IN  /\ err = NoError
            /\ IF n > 3
               THEN /\ Len(out) = n + 1
                    /\ CharAt(out, k + 1) = "-"
                    /\ \A i \in 1..k : CharAt(out, i) = InviteChar(a, i)
                    /\ \A i \in (k + 1)..n : CharAt(out, i + 1) = InviteChar(a, i)
               ELSE /\ Len(out) = n
                    /\ \A i \in 1..n : CharAt(out, i) = InviteChar(a, i)
            /\ a = FromNat(78) => out = "gv"
            /\ a = FromNat(22202) => out = "hj-qp"
            /\ a = FromNat(287930) => out = "gj-gqp"

\* the code of 287930, of five characters, has been rendered
C7_Witness ==
    /\ op = "renderSteamInvite"
    /\ getAccountID(data) = FromNat(287930)
    /\ out = "gj-gqp"

\* C8: on an object whose type is neither Invalid nor Individual
\* renderSteamInvite() fails with the individual-only error and leaves the
\* packed value as it was.
C8_InviteOfOtherTypes ==
    [][(op' = "renderSteamInvite" /\ getAccountType(data) \notin {0, 1}) =>
          /\ err' = ErrIndividualOnly
          /\ out' = NoResult
          /\ data' = data]_vars

\* renderSteamInvite() has thrown on a Clan
C8_Witness ==
    /\ op = "renderSteamInvite"
    /\ getAccountType(data) = TypeClan
    /\ err = ErrIndividualOnly

\* C9: the packed value of an object is an integer of [0, 2^64 - 1] after
\* its construction and after every setFromUInt64 and setter call on it.
C9_PackedValueIs64Bit ==
    status = "ok" => LessEq(data, Hex("ffffffffffffffff"))

\* C10: renderSteam3() returns [<char>:<universe>:<accountNumber>], with
\* :<instance> before the closing bracket exactly for AnonGameServer and
\* Multiseat; char is the table's entry at the type code ("i" outside the
\* table), but for Chat "c" when the instance has bit 0x80000, else "L" when
\* it has bit 0x40000.  76561197960287930 renders [U:1:22202].
C10_Steam3Form ==
    op = "renderSteam3" =>
        LET type == getAccountType(data)
            instance == getAccountInstance(data)
            entry == IF type <= 10 THEN accountTypeChars[type + 1] ELSE "i"
            char == IF type = 8 /\ (instance \div 524288) % 2 = 1 THEN "c"
                    ELSE IF type = 8 /\ (instance \div 262144) % 2 = 1 THEN "L"
                    ELSE entry
            head == "[" \o char \o ":" \o ToDecimal(FromNat(getAccountUniverse(data)))
                        \o ":" \o ToDecimal(getAccountID(data))
        IN  /\ err = NoError
            /\ out = IF type \in {2, 4}
                     THEN head \o ":" \o ToDecimal(FromNat(instance)) \o "]"
                     ELSE head \o "]"
            /\ data = construct(Str("76561197960287930")).data => out = "[U:1:22202]"

\* a Chat whose instance has both flags has been rendered
C10_Witness ==
    /\ op = "renderSteam3"
    /\ getAccountType(data) = TypeChat
    /\ getAccountInstance(data) = 524288 + 262144
    /\ out = "[c:1:5]"

\* C11: for every string STEAM_<u>:<s>:<h> with h < 4294967295, construction
\* either gives an object whose account number is 2*h + s, with instance 1,
\* type Individual and universe u (1 when u is 0), or fails with the
\* account-number setter's error; it never succeeds with another account
\* number.  For h >= 4294967295 it fails with the out-of-range error.
C11_Steam2Recombination ==
    (op = "constructor" /\ arg.kind = "string" /\ matchSteam2(arg.str).matched) =>
        LET m == matchSteam2(arg.str)
            h == FromDecimal(m.id)
            s == DigitVal(m.authServer)
            u == DigitVal(m.universe)
        IN  IF Less(h, FromDecimal("4294967295"))
            THEN \/ /\ err = NoError
                    /\ getAccountID(data) = Add(ShiftLeft(h, 1), FromNat(s))
                    /\ getAccountInstance(data) = 1
                    /\ getAccountType(data) = 1
                    /\ getAccountUniverse(data) = (IF u = 0 THEN 1 ELSE u)
                 \/ err = ErrAccountID
            ELSE err = ErrTooLarge

\* C12: constructing from a string of the Steam3 grammar whose account
\* number is below 4294967295 succeeds, with the instance 524288 (0x80000)
\* for the type characters c and L; otherwise 0 for T and g; otherwise the
\* instance segment when there is one; otherwise 1 for U; otherwise 0.
C12_Steam3Instance ==
    (/\ op = "constructor"
     /\ arg.kind = "string"
     /\ matchSteam3(arg.str).matched
     /\ Less(FromDecimal(matchSteam3(arg.str).id), FromDecimal("4294967295"))) =>
        LET m == matchSteam3(arg.str)
            instance == IF m.type \in {"c", "L"} THEN FromNat(524288)
                        ELSE IF m.type \in {"T", "g"} THEN FromNat(0)
                        ELSE IF m.hasInstance THEN FromDecimal(m.instance)
                        ELSE IF m.type = "U" THEN FromNat(1)
                        ELSE FromNat(0)
        IN  /\ err = NoError
            /\ FromNat(getAccountInstance(data)) = instance

\* C13: in every state reached by construction, setFromUInt64 and setter
\* calls, isValid() returns true exactly when, on the fields of the packed
\* value as it is now: the type is in 1..10, the universe is in 1..4, the
\* type is neither Individual nor Clan or else the account number is not 0
\* and the instance is 0, and the type is not GameServer or else the account
\* number is not 0.
C13_IsValidOfFields ==
    op = "isValid" =>
        LET type == getAccountType(data)
            universe == getAccountUniverse(data)
            account == getAccountID(data)
            instance == getAccountInstance(data)
        IN  /\ err = NoError
            /\ out = (/\ type \in 1..10
                      /\ universe \in 1..4
                      /\ (type \notin {1, 7} \/ (Len(account) # 0 /\ instance = 0))
                      /\ (type # 3 \/ Len(account) # 0))

\* isValid() has returned true on an Individual that setters have made valid
\* after its construction
C13_Witness ==
    /\ op = "isValid"
    /\ out = TRUE
    /\ getAccountType(data) = 1
    /\ data # construct(Str("[U:1:1]")).data

\* C14: for every object on which isValid() is true, the constructor accepts
\* the string renderSteam3() returns for it.
C14_ValidRendersConstructible ==
    (op = "renderSteam3" /\ isValid(data)) =>
        construct(Str(out)).err = NoError

=============================================================================
